---------------------------- MODULE Spec2Model ----------------------------
(***************************************************************************)
(* A model of pyradi's ryfiles module (src/pyradi/ryfiles.py).             *)
(*                                                                         *)
(* The module is Python 2 code (it refuses to import under Python 3) that  *)
(* starts with "from __future__ import division", so "/" between two ints  *)
(* is IEEE double division.  The numpy it was written for (1.6/1.7, the    *)
(* one its own __main__ test runs on) truncates a float given as a shape   *)
(* dimension and evaluates "array == None" to a plain False; both are      *)
(* modelled that way.                                                      *)
(*                                                                         *)
(* Each function of the module is an independent call; each gets its own   *)
(* specification over its own variables (the variables of the other        *)
(* functions stay at their idle values).                                   *)
(***************************************************************************)
EXTENDS Integers, Sequences, FiniteSets

(***************************************************************************)
(* Bounds of the model.                                                    *)
(***************************************************************************)
MaxRows  == 3      \* frame heights 0..MaxRows
MaxCols  == 3      \* frame widths 0..MaxCols
MaxElems == 25     \* elements in the binary file 0..MaxElems
MaxIdx   == 2      \* requested frame indices -1..MaxIdx
MaxReq   == 2      \* length of the request list 0..MaxReq
MaxN     == 2      \* data rows of the text file 1..MaxN
MaxLoad  == 2      \* length of loadCol 1..MaxLoad
MaxT     == 3      \* target abscissa points 0..MaxT
MaxStr   == 3      \* length of the string to clean 0..MaxStr
MaxRem   == 2      \* length of the strip string 0..MaxRem
MaxDepth == 2      \* directory levels below the root 0..MaxDepth
MaxPat   == 3      \* length of the patterns string 0..MaxPat
MaxGridRows == 2   \* rows of the array written 0..MaxGridRows
MaxGridCols == 2   \* columns of the array written 1..MaxGridCols
MaxHeader   == 2   \* characters of the text-file header 0..MaxHeader
MaxCells    == 3   \* cells of the LaTeX header 1..MaxCells
MaxLeft     == 4   \* entries of leftCol 0..MaxLeft

(***************************************************************************)
(* Generic helpers.                                                        *)
(***************************************************************************)
RECURSIVE Pow2(_)
Pow2(k) == IF k = 0 THEN 1 ELSE 2 * Pow2(k - 1)

SeqsUpTo(S, n) == UNION { [1..k -> S] : k \in 0..n }

SeqMax(s) == CHOOSE m \in { s[i] : i \in DOMAIN s } :
                 \A i \in DOMAIN s : s[i] <= m

InSeq(x, s) == \E i \in DOMAIN s : s[i] = x

(***************************************************************************)
(* The state.  The functions of the module share nothing: a behaviour is   *)
(* one call of one function, the variables of the others unchanged.        *)
(***************************************************************************)
VARIABLES
    \* readRawFrames
    rfArgs,      \* the call: [exists, content, rows, cols, loadFrames]
    rfPc,        \* "call", "loop", "shape", "done"
    fin,         \* elements consumed from the open file
    frame,       \* loop variable of the selective read
    data,        \* [none, elems]: None, or the flat array read so far
    rfRet,       \* the outcome: [kind, frames, rawShaped, exc]
    \* loadColumnTextFile
    ltArgs,      \* the call: [table, loadCol, normalize, abscissaScale,
                 \*            ordinateScale, hasOut, abscissaOut]
    ltPc,        \* "call", "interp", "finish", "done"
    abscissa,    \* line 136
    ordinate,    \* line 139
    interpValue, \* lines 148/150
    ltRet,       \* the outcome: [kind, value, exc]
    \* cleanFilename
    cfArgs,      \* the call: [sourcestring, removestring]
    cfPc,        \* "call", "again", "done"
    cfRet,       \* the outcome: [kind, value, exc]
    cfRet2,      \* the outcome when the string returned is cleaned again
    \* listFiles
    lfArgs,      \* the call: [exists, tree, patterns, recurse, return_folders, useRegex]
    lfPc,        \* "call", "walk", "done"
    pattern_list,\* line 244
    results,     \* arg.results
    lfStack,     \* the directories os.path.walk has still to enter
    lfRet,       \* the outcome: [kind, value]
    \* saveHeaderArrayTextFile
    shArgs,      \* the call: [writable, dataArray, header, comment, delimiter]
    shPc,        \* "call", "header", "array", "done"
    shFile,      \* the handle "file": [open, writes]
    shLines,     \* the header lines still to write
    shRet,       \* the outcome: [kind, exc]
    \* arrayToLaTex
    atArgs,      \* the call: [writable, arr, header, leftCol, formatstring]
    atPc,        \* "call", "header", "data", "rows", "end", "done"
    atFile,      \* the handle "file": [open, writes]
    atI,         \* the i of "for i,entry in enumerate(leftCol[1:])"
    atRet        \* the outcome: [kind, exc]

rfVars == <<rfArgs, rfPc, fin, frame, data, rfRet>>
ltVars == <<ltArgs, ltPc, abscissa, ordinate, interpValue, ltRet>>
cfVars == <<cfArgs, cfPc, cfRet, cfRet2>>
lfVars == <<lfArgs, lfPc, pattern_list, results, lfStack, lfRet>>
shVars == <<shArgs, shPc, shFile, shLines, shRet>>
atVars == <<atArgs, atPc, atFile, atI, atRet>>
vars   == <<rfVars, ltVars, cfVars, lfVars, shVars, atVars>>

(***************************************************************************)
(* IEEE-754 binary64 arithmetic on non-negative values, as Python's float  *)
(* does it.  A significand is a natural number held as a little-endian     *)
(* sequence of limbs in base LimbBase (no leading zero limb; zero is the   *)
(* empty sequence).  A float is [m |-> significand, e |-> exponent], its   *)
(* value m * 2^e, with m = 0 or 2^52 <= m < 2^53.                          *)
(***************************************************************************)
LimbBits == 14
LimbBase == Pow2(LimbBits)
MantBits == 53

RECURSIVE BitLenInt(_)
BitLenInt(n) == IF n = 0 THEN 0 ELSE 1 + BitLenInt(n \div 2)

RECURSIVE BigNorm(_)
BigNorm(x) == IF x = <<>> THEN <<>>
              ELSE IF x[Len(x)] = 0 THEN BigNorm(SubSeq(x, 1, Len(x) - 1))
              ELSE x

BigBitLen(x) == IF x = <<>> THEN 0
                ELSE LimbBits * (Len(x) - 1) + BitLenInt(x[Len(x)])

RECURSIVE BigMulCarry(_, _, _, _)
BigMulCarry(x, k, i, carry) ==
    IF i > Len(x)
    THEN IF carry = 0 THEN <<>>
         ELSE <<carry % LimbBase>> \o BigMulCarry(x, k, i, carry \div LimbBase)
    ELSE LET p == x[i] * k + carry
         IN  <<p % LimbBase>> \o BigMulCarry(x, k, i + 1, p \div LimbBase)

BigMulSmall(x, k) == BigNorm(BigMulCarry(x, k, 1, 0))

\* the limbs brought back below LimbBase
BigCanon(x) == BigMulSmall(x, 1)

BigFromInt(n) == IF n = 0 THEN <<>> ELSE BigCanon(<<n>>)

RECURSIVE BigZeros(_)
BigZeros(n) == IF n = 0 THEN <<>> ELSE <<0>> \o BigZeros(n - 1)

\* x * 2^s
BigShl(x, s) == IF x = <<>> THEN <<>>
                ELSE BigZeros(s \div LimbBits) \o BigMulSmall(x, Pow2(s % LimbBits))

\* <<quotient, remainder>> of x by a small d, long division from the top limb
RECURSIVE BigDivFrom(_, _, _, _)
BigDivFrom(x, d, i, rem) ==
    IF i = 0 THEN [q |-> <<>>, r |-> rem]
    ELSE LET cur  == rem * LimbBase + x[i]
             rest == BigDivFrom(x, d, i - 1, cur % d)
         IN  [q |-> Append(rest.q, cur \div d), r |-> rest.r]

BigDivSmall(x, d) ==
    LET res == BigDivFrom(x, d, Len(x), 0)
    IN  [q |-> BigNorm(res.q), r |-> res.r]

BigIsOdd(x) == x # <<>> /\ x[1] % 2 = 1

BigInc(x) == IF x = <<>> THEN <<1>> ELSE BigCanon([x EXCEPT ![1] = @ + 1])

RECURSIVE BigToInt(_)
BigToInt(x) == IF x = <<>> THEN 0
               ELSE x[1] + LimbBase * BigToInt(SubSeq(x, 2, Len(x)))

FZero == [m |-> <<>>, e |-> 0]

\* round a significand of more than MantBits bits to nearest, ties to even
FRound(m, e, sticky) ==
    LET t == BigBitLen(m) - MantBits
    IN  IF t <= 0 THEN [m |-> m, e |-> e]
        ELSE LET dv   == BigDivSmall(m, Pow2(t))
                 half == Pow2(t - 1)
                 up   == \/ dv.r > half
                         \/ dv.r = half /\ sticky
                         \/ dv.r = half /\ ~sticky /\ BigIsOdd(dv.q)
                 q    == IF up THEN BigInc(dv.q) ELSE dv.q
             IN  IF BigBitLen(q) > MantBits
                 THEN [m |-> BigDivSmall(q, 2).q, e |-> e + t + 1]
                 ELSE [m |-> q, e |-> e + t]

\* the exponent E with d * 2^E <= n < d * 2^(E+1), for n, d >= 1
RECURSIVE FloorLog2(_, _)
FloorLog2(n, d) == IF n >= 2 * d THEN 1 + FloorLog2(n, 2 * d)
                   ELSE IF n < d THEN FloorLog2(2 * n, d) - 1
                   ELSE 0

\* float(n) / float(d), correctly rounded (n >= 0, d >= 1)
FDiv(n, d) ==
    IF n = 0 THEN FZero
    ELSE LET ex == FloorLog2(n, d)
             s  == MantBits - ex          \* quotient gets MantBits + 1 bits
             dv == BigDivSmall(BigShl(BigFromInt(n), s), d)
         IN  FRound(dv.q, 0 - s, dv.r # 0)

\* a float times a small non-negative int, correctly rounded
FMulInt(x, k) ==
    IF x.m = <<>> \/ k = 0 THEN FZero
    ELSE FRound(BigMulSmall(x.m, k), x.e, FALSE)

\* float == int
FEqInt(x, n) ==
    IF n = 0 THEN x.m = <<>>
    ELSE /\ x.m # <<>>
         /\ x.e <= 0
         /\ x.m = BigShl(BigFromInt(n), 0 - x.e)

\* int(float): truncation
RECURSIVE BigShr(_, _)
BigShr(x, s) == IF x = <<>> \/ s = 0 THEN x
                ELSE IF s >= LimbBits THEN BigShr(SubSeq(x, 2, Len(x)), s - LimbBits)
                ELSE BigDivSmall(x, Pow2(s)).q

FTrunc(x) == IF x.m = <<>> THEN 0
             ELSE IF x.e >= 0 THEN BigToInt(BigShl(x.m, x.e))
             ELSE BigToInt(BigShr(x.m, 0 - x.e))

(***************************************************************************)
(* readRawFrames(fname, rows, cols, vartype, loadFrames)                   *)
(*                                                                         *)
(* The binary file is a flat sequence of elements of vartype (a trailing   *)
(* fragment of an element is never delivered by numpy.fromfile).  Element  *)
(* i of the file holds the value i, so that every element of a returned    *)
(* stack tells where in the file it came from.                             *)
(***************************************************************************)
FileContent(n) == [i \in 1..n |-> i]

NoneArray == [none |-> TRUE, shape |-> <<>>, elems |-> <<>>]
NoneData  == [none |-> TRUE, elems |-> <<>>]
Pending   == [kind |-> "pending", frames |-> 0, rawShaped |-> NoneArray, exc |-> "none"]

Return(frames, rawShaped) ==
    [kind |-> "return", frames |-> frames, rawShaped |-> rawShaped, exc |-> "none"]

Raise(exc) ==
    [kind |-> "raise", frames |-> 0, rawShaped |-> NoneArray, exc |-> exc]

\* the handler that re-raises instead of returning
OnIOErrorReraise(frames, rawShaped) == Raise("IOError")

\* except IOError: return int(frames), rawShaped
OnIOError(frames, rawShaped) == Return(frames, rawShaped)

\* numpy.fromfile(fin, vartype, count): the next count elements, fewer at the
\* end of the file; count = -1 reads to the end
FromFile(content, pos, count) ==
    IF count < 0 THEN SubSeq(content, pos + 1, Len(content))
    ELSE SubSeq(content, pos + 1,
                IF pos + count <= Len(content) THEN pos + count ELSE Len(content))

\* frame in loadFrames
FrameRequested(f, loadFrames) == InSeq(f, loadFrames)

\* the new frame put in front of the frames already kept
ConcatenateFront(d, dataframe) == dataframe \o d

\* numpy.concatenate((data, dataframe))
Concatenate(d, dataframe) == d \o dataframe

\* data.reshape(frames, rows, cols): C order, the flat data unchanged; fails
\* when the sizes differ
Reshape(elems, f, r, c) ==
    IF f * r * c = Len(elems)
    THEN [ok |-> TRUE, arr |-> [none |-> FALSE, shape |-> <<f, r, c>>, elems |-> elems]]
    ELSE [ok |-> FALSE, arr |-> NoneArray]

RfCalls ==
    { [exists |-> ex, content |-> FileContent(n), rows |-> r, cols |-> c,
       loadFrames |-> lf] :
          ex \in BOOLEAN, n \in 0..MaxElems, r \in 0..MaxRows, c \in 0..MaxCols,
          lf \in SeqsUpTo(-1..MaxIdx, MaxReq) }

RfInit ==
    /\ rfArgs \in { a \in RfCalls : ~a.exists => a.content = <<>> }
    /\ rfPc = "call"
    /\ fin = 0
    /\ frame = 0
    /\ data = NoneData
    /\ rfRet = Pending

\* lines 331-338: no request list, the whole file is read
ReadAll ==
    /\ rfPc = "call"
    /\ rfArgs.loadFrames = <<>>
    /\ IF ~rfArgs.exists
       THEN /\ rfRet' = OnIOError(0, NoneArray)
            /\ rfPc' = "done"
            /\ UNCHANGED <<fin, data>>
       ELSE /\ data' = [none |-> FALSE, elems |-> FromFile(rfArgs.content, 0, -1)]
            /\ fin' = Len(rfArgs.content)
            /\ rfPc' = "shape"
            /\ UNCHANGED rfRet
    /\ UNCHANGED <<rfArgs, frame>>
    /\ UNCHANGED <<ltVars, cfVars, lfVars, shVars, atVars>>

\* lines 342-348: framesize, lastframe, data = None, then the open
OpenSelective ==
    /\ rfPc = "call"
    /\ rfArgs.loadFrames # <<>>
    /\ IF ~rfArgs.exists
       THEN /\ rfRet' = OnIOError(0, NoneArray)
            /\ rfPc' = "done"
       ELSE /\ rfPc' = "loop"
            /\ UNCHANGED rfRet
    /\ frame' = 0
    /\ data' = NoneData
    /\ UNCHANGED <<rfArgs, fin>>
    /\ UNCHANGED <<ltVars, cfVars, lfVars, shVars, atVars>>

\* lines 349-355: one turn of "for frame in range(0, lastframe+1, 1)"
ReadFrame ==
    /\ rfPc = "loop"
    /\ frame <= SeqMax(rfArgs.loadFrames)
    /\ LET framesize == rfArgs.rows * rfArgs.cols
           dataframe == FromFile(rfArgs.content, fin, framesize)
       IN  /\ fin' = fin + Len(dataframe)
           /\ data' = IF FrameRequested(frame, rfArgs.loadFrames)
                      THEN IF data.none
                           THEN [none |-> FALSE, elems |-> dataframe]
                           ELSE [none |-> FALSE, elems |-> Concatenate(data.elems, dataframe)]
                      ELSE data
    /\ frame' = frame + 1
    /\ UNCHANGED <<rfArgs, rfPc, rfRet>>
    /\ UNCHANGED <<ltVars, cfVars, lfVars, shVars, atVars>>

\* the range is exhausted, the with block closes the file
EndLoop ==
    /\ rfPc = "loop"
    /\ frame > SeqMax(rfArgs.loadFrames)
    /\ rfPc' = "shape"
    /\ UNCHANGED <<rfArgs, fin, frame, data, rfRet>>
    /\ UNCHANGED <<ltVars, cfVars, lfVars, shVars, atVars>>

\* lines 361-372: frames = data.size / (rows * cols) is a double, and so is
\* sizeCheck; reshape truncates the double; the return converts with int()
ShapeResult(d, rows, cols) ==
    IF d.none THEN Raise("AttributeError")
    ELSE IF rows * cols = 0 THEN Raise("ZeroDivisionError")
    ELSE LET size      == Len(d.elems)
             frames    == FDiv(size, rows * cols)
             sizeCheck == FMulInt(FMulInt(frames, rows), cols)
         IN  IF FEqInt(sizeCheck, size)
             THEN LET rs == Reshape(d.elems, FTrunc(frames), rows, cols)
                  IN  IF rs.ok THEN Return(FTrunc(frames), rs.arr)
                      ELSE Raise("ValueError")
             ELSE Return(FTrunc(frames), NoneArray)

Shape ==
    /\ rfPc = "shape"
    /\ rfRet' = ShapeResult(data, rfArgs.rows, rfArgs.cols)
    /\ rfPc' = "done"
    /\ UNCHANGED <<rfArgs, fin, frame, data>>
    /\ UNCHANGED <<ltVars, cfVars, lfVars, shVars, atVars>>

RfNext == ReadAll \/ OpenSelective \/ ReadFrame \/ EndLoop \/ Shape

(***************************************************************************)
(* Exact rational numbers for the floating-point values of the text        *)
(* tables: [n |-> numerator, d |-> denominator], reduced, d >= 0.  The     *)
(* results numpy gives for a division by zero are n/0: 1/0 is inf and 0/0  *)
(* is nan (numpy warns and carries on).                                    *)
(***************************************************************************)
RECURSIVE GCD(_, _)
GCD(a, b) == IF b = 0 THEN a ELSE GCD(b, a % b)

Abs(x) == IF x < 0 THEN 0 - x ELSE x

Rat(n, d) ==
    IF d = 0 THEN [n |-> IF n = 0 THEN 0 ELSE 1, d |-> 0]
    ELSE LET g == GCD(Abs(n), Abs(d))
             sg == IF d < 0 THEN 0 - 1 ELSE 1
         IN  [n |-> sg * (n \div g), d |-> sg * (d \div g)]

RInt(k)     == [n |-> k, d |-> 1]
RAdd(a, b)  == Rat(a.n * b.d + b.n * a.d, a.d * b.d)
RSub(a, b)  == Rat(a.n * b.d - b.n * a.d, a.d * b.d)
RMul(a, b)  == Rat(a.n * b.n, a.d * b.d)
RLeq(a, b)  == a.n * b.d <= b.n * a.d
RIsNan(a)   == a.n = 0 /\ a.d = 0

\* a / b for finite a >= 0 and b >= 0, as numpy's true_divide gives it
RDiv(a, b)  == Rat(a.n * b.d, a.d * b.n)

(***************************************************************************)
(* numpy arrays: [shape |-> the dimensions, v |-> the elements in C order] *)
(***************************************************************************)
Ndim(a) == Len(a.shape)
Size(a) == Len(a.v)

\* numpy.squeeze: the dimensions of length 1 dropped
Squeeze(a) == [shape |-> SelectSeq(a.shape, LAMBDA n : n # 1), v |-> a.v]

\* ndarray.T: the axes reversed (no change below two dimensions)
Transpose(a) ==
    IF Ndim(a) # 2 THEN a
    ELSE LET r == a.shape[1]
             c == a.shape[2]
         IN  [shape |-> <<c, r>>,
              v |-> [k \in 1..(r * c) |->
                        a.v[((k - 1) % r) * c + ((k - 1) \div r) + 1]]]

\* scalar * array
ScalarMul(k, a) == [shape |-> a.shape, v |-> [i \in DOMAIN a.v |-> RMul(RInt(k), a.v[i])]]

RMaxOf(S) == CHOOSE m \in S : \A x \in S : RLeq(x, m)

\* numpy.max(a, axis=0): the first axis reduced away
MaxAxis0(a) ==
    IF Ndim(a) <= 1
    THEN [shape |-> <<>>, v |-> << RMaxOf({ a.v[i] : i \in DOMAIN a.v }) >>]
    ELSE LET r == a.shape[1]
             c == a.shape[2]
         IN  [shape |-> <<c>>,
              v |-> [j \in 1..c |-> RMaxOf({ a.v[(i - 1) * c + j] : i \in 1..r })]]

\* a /= m, m broadcast along the last axis of a
DivideBroadcast(a, m) ==
    [shape |-> a.shape,
     v |-> [k \in DOMAIN a.v |->
               RDiv(a.v[k], IF Ndim(m) = 0 THEN m.v[1]
                            ELSE m.v[((k - 1) % m.shape[1]) + 1])]]

\* a.reshape(n, -1)
ReshapeRows(a, n) == [shape |-> <<n, Size(a) \div n>>, v |-> a.v]

(***************************************************************************)
(* loadColumnTextFile(filename, loadCol, comment, normalize, skiprows,     *)
(*                    delimiter, abscissaScale, ordinateScale, abscissaOut)*)
(*                                                                         *)
(* The text file is the table of numbers its data lines parse to: a        *)
(* sequence of rows, column 0 (the abscissa) first.                        *)
(***************************************************************************)
NoArray == [shape |-> <<>>, v |-> <<>>]

\* numpy.loadtxt(filename, usecols=usecols, unpack=True): the chosen columns
\* of every row, in the order of usecols; squeezed; transposed
LoadTxt(table, usecols) ==
    LET n == Len(table)
        m == Len(usecols)
        X == [shape |-> <<n, m>>,
              v |-> [k \in 1..(n * m) |->
                        RInt(table[((k - 1) \div m) + 1][usecols[((k - 1) % m) + 1] + 1])]]
    IN  Transpose(Squeeze(X))

\* searchsorted(x, t), clipped to 1..len(x)-1 (0-based): the index hi of the
\* upper neighbour, 1-based here
UpperIndex(x, t) ==
    LET below == Cardinality({ i \in DOMAIN x.v : ~RLeq(RInt(t), x.v[i]) })
        clipped == IF below < 1 THEN 1
                   ELSE IF below > Len(x.v) - 1 THEN Len(x.v) - 1 ELSE below
    IN  clipped + 1

\* one linearly interpolated value of the row y (a sequence) at t
LinearAt(x, y, t) ==
    LET hi    == UpperIndex(x, t)
        lo    == hi - 1
        slope == RDiv(RSub(y[hi], y[lo]), RSub(x.v[hi], x.v[lo]))
    IN  RAdd(RMul(slope, RSub(RInt(t), x.v[lo])), y[lo])

InterpOutOfBounds(x, xnew) ==
    \E k \in DOMAIN xnew : \/ ~RLeq(x.v[1], RInt(xnew[k]))
                           \/ ~RLeq(RInt(xnew[k]), x.v[Len(x.v)])

\* interp1d(x, y)(xnew): linear, along the last axis of y, bounds_error set
Interp1d(x, y, xnew) ==
    IF Ndim(x) # 1 \/ Ndim(y) = 0 \/ Len(x.v) < 2 \/ y.shape[Ndim(y)] # Len(x.v)
    THEN [ok |-> FALSE, arr |-> NoArray]
    ELSE IF InterpOutOfBounds(x, xnew)
    THEN [ok |-> FALSE, arr |-> NoArray]
    ELSE LET n == Len(x.v)
             k == Len(xnew)
             m == Size(y) \div n
         IN  [ok |-> TRUE,
              arr |-> [shape |-> SubSeq(y.shape, 1, Ndim(y) - 1) \o <<k>>,
                       v |-> [p \in 1..(m * k) |->
                                 LET row == (p - 1) \div k
                                 IN  LinearAt(x, SubSeq(y.v, row * n + 1, row * n + n),
                                              xnew[((p - 1) % k) + 1])]]]

\* the text tables: the abscissa 1, 3, 5, ... and two ordinate columns
OrdinateValues1 == {0, 1, 2}
OrdinateValues2 == {0, 2}
Tables ==
    UNION { { [i \in 1..n |-> <<2 * i - 1, c1[i], c2[i]>>] :
                c1 \in [1..n -> OrdinateValues1], c2 \in [1..n -> OrdinateValues2] } :
            n \in 1..MaxN }

\* abscissaOut: numpy.arange(lo, hi + 1), of one or two points
TargetGrids == { <<t>> : t \in 0..MaxT } \cup { <<t, t + 1>> : t \in 0..(MaxT - 1) }

LtCall(t, lc, nz, ho, ao) ==
    [table |-> t, loadCol |-> lc, normalize |-> nz, abscissaScale |-> 1,
     ordinateScale |-> 1, hasOut |-> ho, abscissaOut |-> ao]

LtInit ==
    /\ \E t \in Tables, lc \in SeqsUpTo({1, 2}, MaxLoad) \ {<<>>}, nz \in {0, 1} :
           \/ ltArgs = LtCall(t, lc, nz, FALSE, <<>>)
           \/ \E ao \in TargetGrids : ltArgs = LtCall(t, lc, nz, TRUE, ao)
    /\ ltPc = "call"
    /\ abscissa = NoArray
    /\ ordinate = NoArray
    /\ interpValue = NoArray
    /\ ltRet = [kind |-> "pending", value |-> NoArray, exc |-> "none"]

\* lines 136-141
LoadText ==
    /\ ltPc = "call"
    /\ abscissa' = ScalarMul(ltArgs.abscissaScale, LoadTxt(ltArgs.table, <<0>>))
    /\ ordinate' = ScalarMul(ltArgs.ordinateScale, LoadTxt(ltArgs.table, ltArgs.loadCol))
    /\ ltPc' = "interp"
    /\ UNCHANGED <<ltArgs, interpValue, ltRet>>
    /\ UNCHANGED <<rfVars, cfVars, lfVars, shVars, atVars>>

\* lines 143-150
Interpolate ==
    /\ ltPc = "interp"
    /\ IF ltArgs.hasOut
       THEN LET f == Interp1d(abscissa, ordinate, ltArgs.abscissaOut)
            IN  IF f.ok
                THEN /\ interpValue' = f.arr
                     /\ ltPc' = "finish"
                     /\ UNCHANGED ltRet
                ELSE /\ ltRet' = [kind |-> "raise", value |-> NoArray, exc |-> "ValueError"]
                     /\ ltPc' = "done"
                     /\ UNCHANGED interpValue
       ELSE /\ interpValue' = ordinate
            /\ ltPc' = "finish"
            /\ UNCHANGED ltRet
    /\ UNCHANGED <<ltArgs, abscissa, ordinate>>
    /\ UNCHANGED <<rfVars, cfVars, lfVars, shVars, atVars>>

\* lines 157-158: interpValue /= numpy.max(interpValue, axis=0)
Normalize(a, normalize) ==
    IF normalize # 0 THEN DivideBroadcast(a, MaxAxis0(a)) ELSE a

\* the reshape without the final transposition
ReturnShapeNoTranspose(a, loadCol) == ReshapeRows(a, Len(loadCol))

\* line 161: interpValue.reshape(len(loadCol), -1).T
ReturnShape(a, loadCol) == Transpose(ReshapeRows(a, Len(loadCol)))

\* lines 153-161 (no array here has more than two dimensions)
Finish ==
    /\ ltPc = "finish"
    /\ ltRet' = [kind |-> "return",
                 value |-> ReturnShape(Normalize(interpValue, ltArgs.normalize),
                                       ltArgs.loadCol),
                 exc |-> "none"]
    /\ ltPc' = "done"
    /\ UNCHANGED <<ltArgs, abscissa, ordinate, interpValue>>
    /\ UNCHANGED <<rfVars, cfVars, lfVars, shVars, atVars>>

LtNext == LoadText \/ Interpolate \/ Finish

(***************************************************************************)
(* cleanFilename(sourcestring, removestring)                               *)
(*                                                                         *)
(* A string is [kind, chars]: a Python 2 byte string ("str") or a unicode  *)
(* string ("unicode"), and the sequence of its characters.  The module     *)
(* imports unicode_literals (line 42), so the default strip string and the *)
(* strings of the module's own test are unicode; a caller's plain literal  *)
(* is a str.  The character NonAscii is the byte 0xE9 in a str and the     *)
(* code point U+00E9 in a unicode string.                                  *)
(***************************************************************************)
NonAscii   == "0xE9"
CleanChars == {"a", "A", ".", NonAscii}
StringKinds == {"str", "unicode"}

PyString(kind, chars) == [kind |-> kind, chars |-> chars]

CfPending    == [kind |-> "pending", value |-> PyString("str", <<>>), exc |-> "none"]
CfReturn(v)  == [kind |-> "return", value |-> v, exc |-> "none"]
CfRaise(exc) == [kind |-> "raise", value |-> PyString("str", <<>>), exc |-> exc]

\* the implicit ASCII decoding of a str that Python 2 does to compare it
\* with a unicode string succeeds
DecodesAsAscii(chars) == \A k \in DOMAIN chars : chars[k] # NonAscii

\* lambda c: c not in removestring, c a character of a string of kind
\* kind: "keep", "drop", or the UnicodeDecodeError of a mixed str/unicode
\* test whose str side holds a byte that is not ASCII
KeepChar(c, kind, removestring) ==
    IF kind = "str" /\ removestring.kind = "unicode" /\ ~DecodesAsAscii(<<c>>)
    THEN "UnicodeDecodeError"
    ELSE IF kind = "unicode" /\ removestring.kind = "str"
            /\ ~DecodesAsAscii(removestring.chars)
    THEN "UnicodeDecodeError"
    ELSE IF InSeq(c, removestring.chars) THEN "drop" ELSE "keep"

\* filter(function, string) from the i-th character on: the characters the
\* function accepts, in order, in a string of the kind of the source; the
\* exception of the function ends it
RECURSIVE Filter(_, _, _, _)
Filter(sourcestring, removestring, i, kept) ==
    IF i > Len(sourcestring.chars)
    THEN CfReturn(PyString(sourcestring.kind, kept))
    ELSE LET c == sourcestring.chars[i]
             k == KeepChar(c, sourcestring.kind, removestring)
         IN  IF k = "UnicodeDecodeError" THEN CfRaise(k)
             ELSE Filter(sourcestring, removestring, i + 1,
                         IF k = "keep" THEN Append(kept, c) ELSE kept)

\* line 214
cleanFilename(sourcestring, removestring) == Filter(sourcestring, removestring, 1, <<>>)

CfInit ==
    /\ cfArgs \in { [sourcestring |-> PyString(sk, src), removestring |-> PyString(rk, rem)] :
                       sk \in StringKinds, src \in SeqsUpTo(CleanChars, MaxStr),
                       rk \in StringKinds, rem \in SeqsUpTo(CleanChars, MaxRem) }
    /\ cfPc = "call"
    /\ cfRet = CfPending
    /\ cfRet2 = CfPending

\* the call
Clean ==
    /\ cfPc = "call"
    /\ cfRet' = cleanFilename(cfArgs.sourcestring, cfArgs.removestring)
    /\ cfPc' = IF cfRet'.kind = "return" THEN "again" ELSE "done"
    /\ UNCHANGED <<cfArgs, cfRet2>>
    /\ UNCHANGED <<rfVars, ltVars, lfVars, shVars, atVars>>

\* the string returned cleaned once more with the same strip string
CleanAgain ==
    /\ cfPc = "again"
    /\ cfRet2' = cleanFilename(cfRet.value, cfArgs.removestring)
    /\ cfPc' = "done"
    /\ UNCHANGED <<cfArgs, cfRet>>
    /\ UNCHANGED <<rfVars, ltVars, lfVars, shVars, atVars>>

CfNext == Clean \/ CleanAgain

(***************************************************************************)
(* listFiles(root, patterns, recurse, return_folders, useRegex)            *)
(*                                                                         *)
(* A name and a pattern are sequences of characters; a path is the         *)
(* sequence of names from root down (os.path.normpath(os.path.join(...))). *)
(* The directory tree is a chain: each directory holds at most one regular *)
(* file and, down to the last level, one subdirectory named SubdirName.    *)
(* tree[k] names the file of the directory k - 1 levels below root (the    *)
(* empty name: no file); os.listdir gives the names in arbitrary order.    *)
(***************************************************************************)
FileNames   == {<<>>, <<"a">>, <<"b">>}
SubdirName  == <<"a", "b">>
PatternChars == {"a", "*", ";"}

\* str.split(sep): the pieces between the separators, empty pieces kept
RECURSIVE Split(_, _)
Split(str, sep) ==
    IF ~InSeq(sep, str) THEN <<str>>
    ELSE LET i == CHOOSE k \in DOMAIN str :
                      str[k] = sep /\ \A j \in 1..(k - 1) : str[j] # sep
         IN  <<SubSeq(str, 1, i - 1)>> \o Split(SubSeq(str, i + 1, Len(str)), sep)

\* fnmatch.fnmatch(name, pattern): the whole name against the shell pattern,
\* "*" any run of characters and "?" any one character
RECURSIVE FnMatch(_, _)
FnMatch(name, pattern) ==
    IF pattern = <<>> THEN name = <<>>
    ELSE IF Head(pattern) = "*"
    THEN \E k \in 0..Len(name) : FnMatch(SubSeq(name, k + 1, Len(name)), Tail(pattern))
    ELSE /\ name # <<>>
         /\ Head(pattern) = "?" \/ Head(pattern) = Head(name)
         /\ FnMatch(Tail(name), Tail(pattern))

\* re.compile(pattern) succeeds: "*" needs something to repeat, and only once
RegexValid(pattern) ==
    \A i \in DOMAIN pattern :
        pattern[i] = "*" => (i > 1 /\ pattern[i - 1] # "*")

\* the regular expression matches at the start of str ("." any character,
\* "x*" any number of x)
RECURSIVE RegexMatchHere(_, _)
RegexMatchHere(pattern, str) ==
    IF pattern = <<>> THEN TRUE
    ELSE IF Len(pattern) >= 2 /\ pattern[2] = "*"
    THEN \E k \in 0..Len(str) :
             /\ \A j \in 1..k : pattern[1] = "." \/ pattern[1] = str[j]
             /\ RegexMatchHere(SubSeq(pattern, 3, Len(pattern)),
                               SubSeq(str, k + 1, Len(str)))
    ELSE /\ str # <<>>
         /\ pattern[1] = "." \/ pattern[1] = Head(str)
         /\ RegexMatchHere(Tail(pattern), Tail(str))

\* regex.search(name): a match anywhere in the name
RegexSearch(pattern, name) ==
    \E k \in 0..Len(name) : RegexMatchHere(pattern, SubSeq(name, k + 1, Len(name)))

\* only the k-th pattern is tried, the rest of the list never
MatchFromOnePattern(name, patterns, k, useRegex) ==
    IF k > Len(patterns) THEN "nomatch"
    ELSE IF useRegex
    THEN IF ~RegexValid(patterns[k]) THEN "error"
         ELSE IF RegexSearch(patterns[k], name) THEN "match" ELSE "nomatch"
    ELSE IF FnMatch(name, patterns[k]) THEN "match" ELSE "nomatch"

\* lines 256-266: the patterns tried in list order from the k-th on, up to
\* the first match: "match", "nomatch", or "error" when re.compile raises
RECURSIVE MatchFrom(_, _, _, _)
MatchFrom(name, patterns, k, useRegex) ==
    IF k > Len(patterns) THEN "nomatch"
    ELSE IF useRegex
    THEN IF ~RegexValid(patterns[k]) THEN "error"
         ELSE IF RegexSearch(patterns[k], name) THEN "match"
         ELSE MatchFrom(name, patterns, k + 1, useRegex)
    ELSE IF FnMatch(name, patterns[k]) THEN "match"
         ELSE MatchFrom(name, patterns, k + 1, useRegex)

\* the entries [name, isdir] of the directory level levels below root
DirEntries(tree, level) ==
    (IF tree[level + 1] # <<>> THEN << [name |-> tree[level + 1], isdir |-> FALSE] >>
     ELSE <<>>)
    \o (IF level + 1 < Len(tree) THEN << [name |-> SubdirName, isdir |-> TRUE] >>
        ELSE <<>>)

\* the arrangements of a sequence
Arrangements(s) ==
    { [i \in DOMAIN s |-> s[p[i]]] :
        p \in { q \in [DOMAIN s -> DOMAIN s] : \A i, j \in DOMAIN s : q[i] = q[j] => i = j } }

\* os.listdir of that directory: the names in arbitrary order, so every
\* arrangement of the entries is a listing it may give
ListDir(tree, level) == Arrangements(DirEntries(tree, level))

\* lines 253-266: visit's loop over the names of one directory, from the
\* i-th name on; res is arg.results so far
RECURSIVE VisitFrom(_, _, _, _, _)
VisitFrom(a, dirname, files, i, res) ==
    IF i > Len(files) THEN [ok |-> TRUE, results |-> res]
    ELSE LET fullname == Append(dirname, files[i].name)
         IN  IF a.return_folders # 0 \/ ~files[i].isdir
             THEN LET m == MatchFrom(files[i].name, a.pattern_list, 1, a.useRegex)
                  IN  IF m = "error" THEN [ok |-> FALSE, results |-> res]
                      ELSE VisitFrom(a, dirname, files, i + 1,
                                     IF m = "match" THEN Append(res, fullname) ELSE res)
             ELSE VisitFrom(a, dirname, files, i + 1, res)

\* the walk goes on into the subdirectories whatever recurse says
KeptForWalkAlways(recurse, files) == files

\* line 268: if not arg.recurse: files[:] = []
KeptForWalk(recurse, files) == IF recurse = 0 THEN <<>> ELSE files

\* os.path.walk after the callback: the directories among the names left
SubdirsOf(dirname, files) ==
    LET dirs == SelectSeq(files, LAMBDA e : e.isdir)
    IN  [k \in DOMAIN dirs |-> Append(dirname, dirs[k].name)]

LfPending == [kind |-> "pending", value |-> <<>>]

LfInit ==
    /\ lfArgs \in { [exists |-> ex, tree |-> t, patterns |-> p, recurse |-> rc,
                     return_folders |-> rf, useRegex |-> ur] :
                       ex \in BOOLEAN,
                       t \in SeqsUpTo(FileNames, MaxDepth + 1) \ {<<>>},
                       p \in SeqsUpTo(PatternChars, MaxPat),
                       rc \in {0, 1}, rf \in {0, 1}, ur \in BOOLEAN }
    /\ ~lfArgs.exists => lfArgs.tree = << <<>> >>
    /\ lfPc = "call"
    /\ pattern_list = <<>>
    /\ results = <<>>
    /\ lfStack = <<>>
    /\ lfRet = LfPending

\* lines 240-249 and the call of os.path.walk(root, visit, arg)
ListCall ==
    /\ lfPc = "call"
    /\ pattern_list' = Split(lfArgs.patterns, ";")
    /\ results' = <<>>
    /\ lfStack' = << <<>> >>
    /\ lfPc' = "walk"
    /\ UNCHANGED <<lfArgs, lfRet>>
    /\ UNCHANGED <<rfVars, ltVars, cfVars, shVars, atVars>>

\* os.path.walk(top, visit, arg) for the next directory: os.listdir (the
\* walk gives up silently when it fails), the callback visit (lines 251-268),
\* then the subdirectories among the names the callback left
WalkDir ==
    /\ lfPc = "walk"
    /\ lfStack # <<>>
    /\ \E files \in ListDir(lfArgs.tree, Len(Head(lfStack))) :
       LET top   == Head(lfStack)
           a     == [pattern_list |-> pattern_list,
                     return_folders |-> lfArgs.return_folders,
                     useRegex |-> lfArgs.useRegex]
           v     == VisitFrom(a, top, files, 1, results)
       IN  IF ~lfArgs.exists
           THEN /\ lfStack' = Tail(lfStack)
                /\ UNCHANGED <<results, lfPc, lfRet>>
           ELSE IF ~v.ok
           THEN /\ lfRet' = [kind |-> "raise", value |-> <<>>]
                /\ lfPc' = "done"
                /\ UNCHANGED <<results, lfStack>>
           ELSE /\ results' = v.results
                /\ lfStack' = SubdirsOf(top, KeptForWalk(lfArgs.recurse, files))
                                  \o Tail(lfStack)
                /\ UNCHANGED <<lfPc, lfRet>>
    /\ UNCHANGED <<lfArgs, pattern_list>>
    /\ UNCHANGED <<rfVars, ltVars, cfVars, shVars, atVars>>

\* line 270: return arg.results
ListReturn ==
    /\ lfPc = "walk"
    /\ lfStack = <<>>
    /\ lfRet' = [kind |-> "return", value |-> results]
    /\ lfPc' = "done"
    /\ UNCHANGED <<lfArgs, pattern_list, results, lfStack>>
    /\ UNCHANGED <<rfVars, ltVars, cfVars, shVars, atVars>>

LfNext == ListCall \/ WalkDir \/ ListReturn

(***************************************************************************)
(* Text written to a file.  A write is the string handed to file.write; a  *)
(* file handle is [open |-> is it open, writes |-> the writes so far].     *)
(* An optional argument is [none |-> TRUE] for None, else [none |-> FALSE, *)
(* val |-> the value].  The array written is two-dimensional, its element  *)
(* with flat index i the float (i - 1) % 10, or an array of strings        *)
(* (numeric = FALSE).                                                      *)
(***************************************************************************)
NoHandle == [open |-> FALSE, writes |-> <<>>]
None     == [none |-> TRUE, val |-> <<>>]
Some(v)  == [none |-> FALSE, val |-> v]
WrPending == [kind |-> "pending", exc |-> "none"]
WrReturn  == [kind |-> "return", exc |-> "none"]
WrRaise(exc) == [kind |-> "raise", exc |-> exc]

Digit(v) == <<"0", "1", "2", "3", "4", "5", "6", "7", "8", "9">>[v + 1]

RECURSIVE Repeat(_, _)
\* n * str
Repeat(str, n) == IF n = 0 THEN "" ELSE str \o Repeat(str, n - 1)

RECURSIVE Str(_)
\* the string of a sequence of characters
Str(chars) == IF chars = <<>> THEN "" ELSE Head(chars) \o Str(Tail(chars))

RECURSIVE Join(_, _)
\* sep.join(strs)
Join(sep, strs) ==
    IF strs = <<>> THEN ""
    ELSE IF Len(strs) = 1 THEN strs[1]
    ELSE strs[1] \o sep \o Join(sep, Tail(strs))

GridValues(r, c) == [i \in 1..(r * c) |-> (i - 1) % 10]
Grid(r, c, numeric) == [shape |-> <<r, c>>, v |-> GridValues(r, c), numeric |-> numeric]
GridRow(X, i) == [j \in 1..X.shape[2] |-> X.v[(i - 1) * X.shape[2] + j]]

\* fmt.count('%')
FmtCount(fmt) == IF fmt = "%.1f&%.1f" THEN 2 ELSE 1

\* conv % v, for a float v = 0.0 .. 9.0
Conv(conv, v) ==
    CASE conv = "%.18e" -> Digit(v) \o "." \o Repeat("0", 18) \o "e+00"
      [] conv = "%1.4e" -> Digit(v) \o ".0000e+00"
      [] conv = "%.1f"  -> Digit(v) \o ".0"

\* format % tuple(row), format as numpy.savetxt builds it from a string fmt
FormatRow(fmt, delimiter, row) ==
    IF FmtCount(fmt) = 1
    THEN Join(delimiter, [j \in DOMAIN row |-> Conv(fmt, row[j])])
    ELSE Conv("%.1f", row[1]) \o "&" \o Conv("%.1f", row[2])

\* numpy.savetxt(fh, X, fmt, delimiter, newline) on an open handle: the
\* writes it makes, and the exception it ends with, if any.  A string fmt
\* that has neither one % nor one per column is refused before any row is
\* written; a row of strings cannot be formatted as a float.
SaveTxt(X, fmt, delimiter, newline) ==
    IF FmtCount(fmt) # 1 /\ FmtCount(fmt) # X.shape[2]
    THEN [exc |-> "AttributeError", writes |-> <<>>]
    ELSE IF X.shape[1] > 0 /\ ~X.numeric
    THEN [exc |-> "TypeError", writes |-> <<>>]
    ELSE [exc |-> "none",
          writes |-> [i \in 1..X.shape[1] |->
                         FormatRow(fmt, delimiter, GridRow(X, i)) \o newline]]

(***************************************************************************)
(* saveHeaderArrayTextFile(filename, dataArray, header, comment, delimiter)*)
(*                                                                         *)
(* header is a sequence of characters; the calls pass a delimiter.         *)
(***************************************************************************)
HeaderChars == {"h", "\n"}

ShCalls ==
    [writable : BOOLEAN,
     dataArray : { Grid(r, c, nu) : r \in 0..MaxGridRows, c \in 1..MaxGridCols,
                                    nu \in BOOLEAN },
     header : {None} \cup { Some(h) : h \in SeqsUpTo(HeaderChars, MaxHeader) },
     comment : {None, Some("#")},
     delimiter : {" "}]

ShInit ==
    /\ shArgs \in ShCalls
    /\ shPc = "call"
    /\ shFile = NoHandle
    /\ shLines = <<>>
    /\ shRet = WrPending

\* line 83: file=open(filename, 'wt'), and the test of line 86
ShOpen ==
    /\ shPc = "call"
    /\ IF ~shArgs.writable
       THEN /\ shRet' = WrRaise("IOError")
            /\ shPc' = "done"
            /\ UNCHANGED <<shFile, shLines>>
       ELSE /\ shFile' = [open |-> TRUE, writes |-> <<>>]
            /\ IF shArgs.header.none
               THEN shPc' = "array" /\ shLines' = <<>>
               ELSE shPc' = "header" /\ shLines' = Split(shArgs.header.val, "\n")
            /\ UNCHANGED shRet
    /\ UNCHANGED shArgs
    /\ UNCHANGED <<rfVars, ltVars, cfVars, lfVars, atVars>>

\* lines 87-88: one turn of "for line in header.split('\n')"; comment+line
\* is a TypeError when comment is None
ShWriteLine ==
    /\ shPc = "header"
    /\ IF shArgs.comment.none
       THEN /\ shRet' = WrRaise("TypeError")
            /\ shPc' = "done"
            /\ UNCHANGED <<shFile, shLines>>
       ELSE /\ shFile' = [shFile EXCEPT !.writes =
                             Append(@, shArgs.comment.val \o Str(Head(shLines)) \o "\n")]
            /\ shLines' = Tail(shLines)
            /\ shPc' = IF Tail(shLines) = <<>> THEN "array" ELSE "header"
            /\ UNCHANGED shRet
    /\ UNCHANGED shArgs
    /\ UNCHANGED <<rfVars, ltVars, cfVars, lfVars, atVars>>

\* what line 93 does to the handle
CloseFile(f) == [f EXCEPT !.open = FALSE]

\* lines 91-93: numpy.savetxt on the handle, then file.close()
ShSaveTxt ==
    /\ shPc = "array"
    /\ LET r == SaveTxt(shArgs.dataArray, "%.18e", shArgs.delimiter, "\n")
       IN  IF r.exc # "none"
           THEN /\ shRet' = WrRaise(r.exc)
                /\ UNCHANGED shFile
           ELSE /\ shFile' = CloseFile([shFile EXCEPT !.writes = @ \o r.writes])
                /\ shRet' = WrReturn
    /\ shPc' = "done"
    /\ UNCHANGED <<shArgs, shLines>>
    /\ UNCHANGED <<rfVars, ltVars, cfVars, lfVars, atVars>>

ShNext == ShOpen \/ ShWriteLine \/ ShSaveTxt

(***************************************************************************)
(* arrayToLaTex(filename, arr, header, leftCol, formatstring, filemode)    *)
(*                                                                         *)
(* header is a string of cells joined by " & "; leftCol is a list of       *)
(* strings; filemode is the default 'wt'.                                  *)
(***************************************************************************)
HeaderString(k) == Join(" & ", [i \in 1..k |-> "Col" \o Digit(i)])
LeftCol(n) == [i \in 1..n |-> "Row" \o Digit(i - 1)]
FormatStrings == {"%1.4e", "%.1f", "%.1f&%.1f"}

AtCalls ==
    [writable : BOOLEAN,
     arr : { Grid(r, c, TRUE) : r \in 0..MaxGridRows, c \in 1..MaxGridCols },
     header : {None} \cup { Some(HeaderString(k)) : k \in 1..MaxCells },
     leftCol : {None} \cup { Some(LeftCol(n)) : n \in 0..MaxLeft },
     formatstring : FormatStrings]

AtInit ==
    /\ atArgs \in AtCalls
    /\ atPc = "call"
    /\ atFile = NoHandle
    /\ atI = 0
    /\ atRet = WrPending

\* lines 436-439
NumCols(arr, leftCol) == IF leftCol.none THEN arr.shape[2] ELSE arr.shape[2] + 1

\* line 442: the string written
Preamble(numcols) ==
    "\\begin{tabular}{ " \o "|" \o Repeat("c|", numcols) \o " }\n\\hline\n"

\* line 462: the string written
EndTabular == "\\hline\n\\end{tabular}"

\* lines 434-442: numcols, file=open(filename, filemode), the preamble
AtOpen ==
    /\ atPc = "call"
    /\ IF ~atArgs.writable
       THEN /\ atRet' = WrRaise("IOError")
            /\ atPc' = "done"
            /\ UNCHANGED atFile
       ELSE /\ atFile' = [open |-> TRUE,
                          writes |-> <<Preamble(NumCols(atArgs.arr, atArgs.leftCol))>>]
            /\ atPc' = "header"
            /\ UNCHANGED atRet
    /\ UNCHANGED <<atArgs, atI>>
    /\ UNCHANGED <<rfVars, ltVars, cfVars, lfVars, shVars>>

\* lines 445-450: the header row; leftCol[0] of an empty list is an IndexError
AtHeader ==
    /\ atPc = "header"
    /\ IF atArgs.header.none
       THEN /\ atPc' = "data"
            /\ UNCHANGED <<atFile, atRet>>
       ELSE IF ~atArgs.leftCol.none /\ atArgs.leftCol.val = <<>>
       THEN /\ atRet' = WrRaise("IndexError")
            /\ atPc' = "done"
            /\ UNCHANGED atFile
       ELSE /\ atFile' = [atFile EXCEPT !.writes =
                 (IF atArgs.leftCol.none THEN @
                  ELSE Append(@, atArgs.leftCol.val[1] \o " & "))
                 \o <<atArgs.header.val \o "\\\\\\hline\n">>]
            /\ atPc' = "data"
            /\ UNCHANGED atRet
    /\ UNCHANGED <<atArgs, atI>>
    /\ UNCHANGED <<rfVars, ltVars, cfVars, lfVars, shVars>>

\* lines 453-455: no left column, the whole array in one savetxt
AtGrid ==
    /\ atPc = "data"
    /\ atArgs.leftCol.none
    /\ LET r == SaveTxt(atArgs.arr, atArgs.formatstring, "&", "\\\\\n")
       IN  IF r.exc # "none"
           THEN /\ atRet' = WrRaise(r.exc)
                /\ atPc' = "done"
                /\ UNCHANGED atFile
           ELSE /\ atFile' = [atFile EXCEPT !.writes = @ \o r.writes]
                /\ atPc' = "end"
                /\ UNCHANGED atRet
    /\ UNCHANGED <<atArgs, atI>>
    /\ UNCHANGED <<rfVars, ltVars, cfVars, lfVars, shVars>>

\* line 458: leftCol[1:]
LeftEntries(leftCol) == IF leftCol = <<>> THEN <<>> ELSE Tail(leftCol)

\* lines 456-458: a left column, the loop over leftCol[1:] starts
AtEnterRows ==
    /\ atPc = "data"
    /\ ~atArgs.leftCol.none
    /\ atPc' = "rows"
    /\ atI' = 0
    /\ UNCHANGED <<atArgs, atFile, atRet>>
    /\ UNCHANGED <<rfVars, ltVars, cfVars, lfVars, shVars>>

\* arr[i].reshape(1,-1): row i (from 0) as a one-row array
RowArray(arr, i) ==
    [shape |-> <<1, arr.shape[2]>>, v |-> GridRow(arr, i + 1), numeric |-> arr.numeric]

\* lines 458-460: one turn of the loop; arr[i] past the last row is an
\* IndexError, raised when entry+'&' is already written
AtRow ==
    /\ atPc = "rows"
    /\ atI < Len(LeftEntries(atArgs.leftCol.val))
    /\ LET entry == LeftEntries(atArgs.leftCol.val)[atI + 1]
           f1 == [atFile EXCEPT !.writes = Append(@, entry \o "&")]
       IN  IF atI >= atArgs.arr.shape[1]
           THEN /\ atFile' = f1
                /\ atRet' = WrRaise("IndexError")
                /\ atPc' = "done"
                /\ UNCHANGED atI
           ELSE LET r == SaveTxt(RowArray(atArgs.arr, atI), atArgs.formatstring,
                                 "&", "\\\\\n")
                IN  IF r.exc # "none"
                    THEN /\ atFile' = f1
                         /\ atRet' = WrRaise(r.exc)
                         /\ atPc' = "done"
                         /\ UNCHANGED atI
                    ELSE /\ atFile' = [f1 EXCEPT !.writes = @ \o r.writes]
                         /\ atI' = atI + 1
                         /\ UNCHANGED <<atPc, atRet>>
    /\ UNCHANGED atArgs
    /\ UNCHANGED <<rfVars, ltVars, cfVars, lfVars, shVars>>

\* lines 462-463: the closing line, file.close(), and the return of None
AtClose ==
    /\ \/ atPc = "end"
       \/ atPc = "rows" /\ atI = Len(LeftEntries(atArgs.leftCol.val))
    /\ atFile' = CloseFile([atFile EXCEPT !.writes = Append(@, EndTabular)])
    /\ atRet' = WrReturn
    /\ atPc' = "done"
    /\ UNCHANGED <<atArgs, atI>>
    /\ UNCHANGED <<rfVars, ltVars, cfVars, lfVars, shVars>>

AtNext == AtOpen \/ AtHeader \/ AtGrid \/ AtEnterRows \/ AtRow \/ AtClose

(***************************************************************************)
(* The specifications: one per function, the other functions idle.         *)
(***************************************************************************)
RfIdle ==
    /\ rfArgs = [exists |-> FALSE, content |-> <<>>, rows |-> 0, cols |-> 0,
                 loadFrames |-> <<>>]
    /\ rfPc = "idle"
    /\ fin = 0
    /\ frame = 0
    /\ data = NoneData
    /\ rfRet = Pending

LtIdle ==
    /\ ltArgs = LtCall(<<>>, <<>>, 0, FALSE, <<>>)
    /\ ltPc = "idle"
    /\ abscissa = NoArray
    /\ ordinate = NoArray
    /\ interpValue = NoArray
    /\ ltRet = [kind |-> "pending", value |-> NoArray, exc |-> "none"]

CfIdle ==
    /\ cfArgs = [sourcestring |-> PyString("str", <<>>),
                 removestring |-> PyString("str", <<>>)]
    /\ cfPc = "idle"
    /\ cfRet = CfPending
    /\ cfRet2 = CfPending

LfIdle ==
    /\ lfArgs = [exists |-> FALSE, tree |-> << <<>> >>, patterns |-> <<>>, recurse |-> 0,
                 return_folders |-> 0, useRegex |-> FALSE]
    /\ lfPc = "idle"
    /\ pattern_list = <<>>
    /\ results = <<>>
    /\ lfStack = <<>>
    /\ lfRet = LfPending

ShIdle ==
    /\ shArgs = [writable |-> FALSE, dataArray |-> Grid(0, 1, TRUE), header |-> None,
                 comment |-> None, delimiter |-> " "]
    /\ shPc = "idle"
    /\ shFile = NoHandle
    /\ shLines = <<>>
    /\ shRet = WrPending

AtIdle ==
    /\ atArgs = [writable |-> FALSE, arr |-> Grid(0, 1, TRUE), header |-> None,
                 leftCol |-> None, formatstring |-> "%1.4e"]
    /\ atPc = "idle"
    /\ atFile = NoHandle
    /\ atI = 0
    /\ atRet = WrPending

InitRawFrames  == RfInit /\ LtIdle /\ CfIdle /\ LfIdle /\ ShIdle /\ AtIdle
InitLoadColumn == LtInit /\ RfIdle /\ CfIdle /\ LfIdle /\ ShIdle /\ AtIdle
InitClean      == CfInit /\ RfIdle /\ LtIdle /\ LfIdle /\ ShIdle /\ AtIdle
InitListFiles  == LfInit /\ RfIdle /\ LtIdle /\ CfIdle /\ ShIdle /\ AtIdle

SpecRawFrames  == InitRawFrames /\ [][RfNext]_vars
SpecLoadColumn == InitLoadColumn /\ [][LtNext]_vars
SpecClean      == InitClean /\ [][CfNext]_vars
SpecListFiles  == InitListFiles /\ [][LfNext]_vars

\* the two functions that write through a handle of their own
InitWriters == \/ ShInit /\ AtIdle /\ RfIdle /\ LtIdle /\ CfIdle /\ LfIdle
               \/ AtInit /\ ShIdle /\ RfIdle /\ LtIdle /\ CfIdle /\ LfIdle
InitLaTex   == AtInit /\ ShIdle /\ RfIdle /\ LtIdle /\ CfIdle /\ LfIdle
WritersNext == ShNext \/ AtNext
SpecWriters == InitWriters /\ [][WritersNext]_vars
SpecLaTex   == InitLaTex /\ [][AtNext]_vars

(***************************************************************************)
(* Properties of readRawFrames.                                            *)
(***************************************************************************)
RfDone      == rfPc = "done"
RfFullMode  == rfArgs.loadFrames = <<>>
RfFrameSize == rfArgs.rows * rfArgs.cols
RfFileElems == Len(rfArgs.content)
RfNoData    == rfRet.kind = "return" /\ rfRet.frames = 0 /\ rfRet.rawShaped.none

\* the distinct requested indices, and the k-th smallest of them
RfRequested == { rfArgs.loadFrames[i] : i \in DOMAIN rfArgs.loadFrames }
RfKthRequested(k) ==
    CHOOSE x \in RfRequested : Cardinality({ y \in RfRequested : y < x }) = k - 1

\* C1: in full-file mode, with rows >= 1 and cols >= 1, a file of k complete
\* frames, with or without a trailing partial frame, yields count k and a
\* stack of shape (k, rows, cols) holding the first k * rows * cols elements
\* of the file in file order.
C1_FullFileYieldsWholeFrames ==
    (RfDone /\ RfFullMode /\ rfArgs.exists /\ rfArgs.rows >= 1 /\ rfArgs.cols >= 1)
    => LET k == RfFileElems \div RfFrameSize
       IN  /\ rfRet.kind = "return"
           /\ rfRet.frames = k
           /\ ~rfRet.rawShaped.none
           /\ rfRet.rawShaped.shape = <<k, rfArgs.rows, rfArgs.cols>>
           /\ rfRet.rawShaped.elems = SubSeq(rfArgs.content, 1, k * RfFrameSize)

RfSelectivePre ==
    /\ RfDone
    /\ ~RfFullMode
    /\ rfArgs.exists
    /\ rfArgs.rows >= 1
    /\ rfArgs.cols >= 1
    /\ \A x \in RfRequested : x >= 0
    /\ RfFileElems >= (SeqMax(rfArgs.loadFrames) + 1) * RfFrameSize

\* C2: in selective mode (request list non-empty, every index >= 0, frames of
\* at least one element, the file holding max(loadFrames)+1 complete frames)
\* the reader consumes frames 0..max(loadFrames), and returns as many frames
\* as there are distinct requested indices: the j-th returned frame is the
\* file's frame with the j-th smallest requested index, whatever the order or
\* repetition of the request list.
C2_SelectiveKeepsRequestedInFileOrder ==
    RfSelectivePre
    => LET n == Cardinality(RfRequested)
       IN  /\ rfRet.kind = "return"
           /\ rfRet.frames = n
           /\ ~rfRet.rawShaped.none
           /\ rfRet.rawShaped.shape = <<n, rfArgs.rows, rfArgs.cols>>
           /\ Len(rfRet.rawShaped.elems) = n * RfFrameSize
           /\ \A j \in 1..n : \A o \in 1..RfFrameSize :
                  rfRet.rawShaped.elems[(j - 1) * RfFrameSize + o]
                      = rfArgs.content[RfKthRequested(j) * RfFrameSize + o]
           /\ fin = (SeqMax(rfArgs.loadFrames) + 1) * RfFrameSize

\* a request given in descending order, two frames returned, with a frame
\* between them that was read and dropped
C2_Witness ==
    /\ RfSelectivePre
    /\ rfArgs.loadFrames = <<2, 0>>
    /\ rfArgs.rows = 2
    /\ rfArgs.cols = 3
    /\ rfRet.kind = "return"
    /\ rfRet.frames = 2

\* C3: in selective mode on a truncated file, when the retained elements are
\* not a whole number of frames, the reader returns the no-data result
\* (count 0, no stack) and does not raise.
C3_TruncatedSelectiveReturnsNoData ==
    (/\ RfDone
     /\ ~RfFullMode
     /\ rfArgs.exists
     /\ RfFrameSize >= 1
     /\ ~data.none
     /\ RfFileElems < (SeqMax(rfArgs.loadFrames) + 1) * RfFrameSize
     /\ Len(data.elems) % RfFrameSize # 0)
    => RfNoData

\* C4: with a missing or unreadable file the reader returns count 0 and no
\* stack, without raising, in the full-file mode and in the selective mode.
C4_MissingFileReturnsNoData ==
    (RfDone /\ ~rfArgs.exists) => RfNoData

\* the selective mode called on a missing file has returned
C4_Witness ==
    /\ RfDone
    /\ ~rfArgs.exists
    /\ rfArgs.loadFrames = <<1, 0>>
    /\ rfArgs.rows = 2
    /\ rfRet.kind = "return"

\* C5: on every return the count is a whole number, the stack is absent
\* whenever the count is 0, a returned stack has shape (count, rows, cols),
\* and a count above 0 never comes with an absent stack.
C5_CountAndStackAgree ==
    (RfDone /\ rfRet.kind = "return")
    => /\ rfRet.frames \in Nat
       /\ rfRet.frames = 0 => rfRet.rawShaped.none
       /\ ~rfRet.rawShaped.none
              => rfRet.rawShaped.shape = <<rfRet.frames, rfArgs.rows, rfArgs.cols>>
       /\ rfRet.frames > 0 => ~rfRet.rawShaped.none

\* C6: the reader never raises: every call ends with a returned
\* (count, stack) pair.
C6_NeverRaises ==
    RfDone => rfRet.kind = "return"

(***************************************************************************)
(* Properties of loadColumnTextFile.                                       *)
(***************************************************************************)
LtReturned == ltPc = "done" /\ ltRet.kind = "return"
LtM        == Len(ltArgs.loadCol)
LtRowsOut  == IF ltArgs.hasOut THEN Len(ltArgs.abscissaOut) ELSE Len(ltArgs.table)

\* element (i, j) of a two-dimensional array, and the maximum of its column j
Elem(a, i, j)  == a.v[(i - 1) * a.shape[2] + j]
ColMax(a, j)   == RMaxOf({ Elem(a, i, j) : i \in 1..a.shape[1] })

\* the grid the call returns when it is not asked to normalize
LtUnnormalized == ReturnShape(interpValue, ltArgs.loadCol)

\* C7: with normalization requested, every column of the returned grid is
\* that column's scaled, interpolated values divided by the column's own
\* maximum: a column with a positive maximum comes back with maximum 1 and
\* does not depend on the other columns.
C7_ColumnsNormalizedByOwnMaximum ==
    (LtReturned /\ ltArgs.normalize # 0)
    => \A j \in 1..LtM :
           LET m == ColMax(LtUnnormalized, j)
           IN  m.n > 0
               => /\ \A i \in 1..LtRowsOut :
                         Elem(ltRet.value, i, j) = RDiv(Elem(LtUnnormalized, i, j), m)
                  /\ ColMax(ltRet.value, j) = RInt(1)

\* the scaled file column c at data row i, and the scaled abscissa
LtFileValue(i, c) == ltArgs.ordinateScale * ltArgs.table[i][c + 1]
LtFileAbscissa(i) == ltArgs.abscissaScale * ltArgs.table[i][1]

\* v is the value at t of the straight line through two neighbouring data
\* points of file column c
LtOnSegment(v, t, c) ==
    \E k \in 1..(Len(ltArgs.table) - 1) :
        LET x0 == LtFileAbscissa(k)
            x1 == LtFileAbscissa(k + 1)
        IN  /\ x0 <= t
            /\ t <= x1
            /\ RMul(v, RInt(x1 - x0))
                   = RInt(LtFileValue(k, c) * (x1 - t) + LtFileValue(k + 1, c) * (t - x0))

\* C8: the returned grid has shape (N, M), M = len(loadCol) and N the number
\* of data rows, or of target abscissa points when abscissaOut is given; and
\* (normalization off) column j holds file column loadCol[j]: its scaled
\* values, or their linear interpolation at the target points.
C8_GridShapeAndColumnOrder ==
    LtReturned
    => /\ ltRet.value.shape = <<LtRowsOut, LtM>>
       /\ Len(ltRet.value.v) = LtRowsOut * LtM
       /\ ltArgs.normalize = 0
              => \A i \in 1..LtRowsOut : \A j \in 1..LtM :
                     IF ltArgs.hasOut
                     THEN LtOnSegment(Elem(ltRet.value, i, j), ltArgs.abscissaOut[i],
                                      ltArgs.loadCol[j])
                     ELSE Elem(ltRet.value, i, j) = RInt(LtFileValue(i, ltArgs.loadCol[j]))

\* two columns requested in reverse order and interpolated at one point
\* between the two data rows
C8_Witness ==
    /\ LtReturned
    /\ ltArgs.normalize = 0
    /\ ltArgs.loadCol = <<2, 1>>
    /\ ltArgs.table = << <<1, 1, 0>>, <<3, 2, 2>> >>
    /\ ltArgs.abscissaOut = <<2>>
    /\ ltRet.value = [shape |-> <<1, 2>>, v |-> <<RInt(1), Rat(3, 2)>>]

\* neither inf nor nan
RIsFinite(a) == a.d # 0

\* C13: with normalization requested, a column whose maximum is zero is not
\* divided by that maximum: every value returned for it is finite.
C13_ZeroMaximumIsGuarded ==
    (LtReturned /\ ltArgs.normalize # 0)
    => \A j \in 1..LtM :
           ColMax(LtUnnormalized, j) = RInt(0)
           => \A i \in 1..LtRowsOut : RIsFinite(Elem(ltRet.value, i, j))

(***************************************************************************)
(* Properties of cleanFilename.                                            *)
(***************************************************************************)
CfSource == cfArgs.sourcestring.chars
CfStrip  == cfArgs.removestring.chars
CfExited == cfPc \in {"again", "done"}

CfKept == { i \in DOMAIN CfSource : \A k \in DOMAIN CfStrip : CfStrip[k] # CfSource[i] }
CfKthKept(j) == CHOOSE i \in CfKept : Cardinality({ h \in CfKept : h < i }) = j - 1

\* C9: for every source string and strip string the call returns (it has
\* no failure outcome); the string returned is the subsequence of the
\* source made of the characters that are not in the strip string (order
\* and case kept), so it holds no character of the strip string, and
\* cleaning it again returns it unchanged.
C9_CleanIsTotalSubsequenceAndIdempotent ==
    /\ CfExited
           => /\ cfRet.kind = "return"
              /\ Len(cfRet.value.chars) = Cardinality(CfKept)
              /\ \A j \in 1..Len(cfRet.value.chars) :
                     /\ cfRet.value.chars[j] = CfSource[CfKthKept(j)]
                     /\ \A k \in DOMAIN CfStrip : cfRet.value.chars[j] # CfStrip[k]
    /\ cfPc = "done" => cfRet2 = cfRet

(***************************************************************************)
(* Properties of listFiles.                                                *)
(***************************************************************************)
LfReturned == lfPc = "done" /\ lfRet.kind = "return"

\* the name matches at least one pattern of the list
LfMatchesSome(name) ==
    \E k \in DOMAIN pattern_list :
        IF lfArgs.useRegex THEN RegexSearch(pattern_list[k], name)
        ELSE FnMatch(name, pattern_list[k])

LfRootEntries == DirEntries(lfArgs.tree, 0)

\* C10: with recurse = 0 every returned path is a direct entry of root whose
\* base name matches a pattern, every matching regular file of root is
\* returned, and nothing inside a subdirectory of root is returned, whatever
\* the depth of the tree.
C10_NoRecursionStaysInRoot ==
    (LfReturned /\ lfArgs.recurse = 0 /\ lfArgs.exists)
    => /\ \A r \in DOMAIN lfRet.value :
              /\ Len(lfRet.value[r]) = 1
              /\ \E e \in DOMAIN LfRootEntries :
                     LfRootEntries[e].name = lfRet.value[r][1]
              /\ LfMatchesSome(lfRet.value[r][1])
       /\ \A e \in DOMAIN LfRootEntries :
              (~LfRootEntries[e].isdir /\ LfMatchesSome(LfRootEntries[e].name))
              => \E r \in DOMAIN lfRet.value : lfRet.value[r] = <<LfRootEntries[e].name>>

\* a tree three directories deep with the same matching file at every level:
\* only root's copy is returned
C10_Witness ==
    /\ LfReturned
    /\ lfArgs.recurse = 0
    /\ lfArgs.exists
    /\ lfArgs.tree = << <<"a">>, <<"a">>, <<"a">> >>
    /\ lfArgs.patterns = <<"a", "*">>
    /\ lfArgs.return_folders = 0
    /\ ~lfArgs.useRegex
    /\ lfRet.value = << << <<"a">> >> >>

\* the directories the walk enters, as levels below root
LfLevels ==
    IF ~lfArgs.exists THEN {}
    ELSE IF lfArgs.recurse = 0 THEN {0}
    ELSE 0..(Len(lfArgs.tree) - 1)

\* the entries of those directories, each with its full path
LfEntries ==
    UNION { { [path |-> Append([k \in 1..l |-> SubdirName], DirEntries(lfArgs.tree, l)[i].name),
               name |-> DirEntries(lfArgs.tree, l)[i].name,
               isdir |-> DirEntries(lfArgs.tree, l)[i].isdir] :
                 i \in DOMAIN DirEntries(lfArgs.tree, l) } : l \in LfLevels }

LfEligible(e) == lfArgs.return_folders # 0 \/ ~e.isdir

\* re.compile accepts the k-th pattern (a glob pattern is never refused)
LfPatternValid(k) == lfArgs.useRegex => RegexValid(pattern_list[k])

\* the k-th pattern matches the name
LfPatternMatches(k, name) ==
    IF lfArgs.useRegex
    THEN RegexValid(pattern_list[k]) /\ RegexSearch(pattern_list[k], name)
    ELSE FnMatch(name, pattern_list[k])

\* the name is matched by some pattern and no pattern before the first
\* matching one is refused by re.compile
LfFirstMatchReached(name) ==
    \E k \in DOMAIN pattern_list :
        /\ LfPatternMatches(k, name)
        /\ \A j \in 1..(k - 1) : LfPatternValid(j) /\ ~LfPatternMatches(j, name)

\* a pattern re.compile refuses is tried on the name before any match
LfHitsInvalid(name) ==
    \E k \in DOMAIN pattern_list :
        /\ ~LfPatternValid(k)
        /\ \A j \in 1..(k - 1) : ~LfPatternMatches(j, name)

LfCount(path) == Cardinality({ r \in DOMAIN lfRet.value : lfRet.value[r] = path })

\* C12: each eligible entry is tested against the patterns in list order up
\* to the first match.  An eligible entry that matches is in the result
\* exactly once, however many patterns match it, so no path is returned
\* twice; an entry that matches no pattern, and a directory when
\* return_folders is not set, is not in the result; a regular file is
\* always eligible.  A pattern after the first match is never tried: the
\* call raises exactly when a refused pattern comes before any match for
\* some eligible entry.
C12_FirstMatchAppendsOnce ==
    /\ LfReturned
       => /\ \A e \in LfEntries :
                 /\ LfCount(e.path) = IF LfEligible(e) /\ LfFirstMatchReached(e.name)
                                      THEN 1 ELSE 0
                 /\ ~e.isdir => LfEligible(e)
                 /\ LfEligible(e) => ~LfHitsInvalid(e.name)
          /\ \A r \in DOMAIN lfRet.value :
                 \E e \in LfEntries : e.path = lfRet.value[r]
    /\ (lfPc = "done" /\ lfRet.kind = "raise")
       => \E e \in LfEntries : LfEligible(e) /\ LfHitsInvalid(e.name)

\* root holds the file "a", which both patterns of "a;*" match, and a
\* subdirectory "*" matches; without return_folders the result is the file,
\* once
C12_Witness ==
    /\ LfReturned
    /\ lfArgs.exists
    /\ lfArgs.tree = << <<"a">>, <<>> >>
    /\ lfArgs.patterns = <<"a", ";", "*">>
    /\ lfArgs.recurse = 1
    /\ lfArgs.return_folders = 0
    /\ ~lfArgs.useRegex
    /\ LfPatternMatches(1, <<"a">>) /\ LfPatternMatches(2, <<"a">>)
    /\ LfPatternMatches(2, SubdirName)
    /\ lfRet.value = << << <<"a">> >> >>

(***************************************************************************)
(* Properties of the functions that write a file.                          *)
(***************************************************************************)
ShExited == shPc = "done"
AtExited == atPc = "done"

\* C11: every function that opens a file releases the handle on all exit
\* paths: once saveHeaderArrayTextFile or arrayToLaTex has returned or
\* raised, the handle it opened is no longer open.
C11_HandleReleasedOnEveryExit ==
    /\ ShExited => ~shFile.open
    /\ AtExited => ~atFile.open

\* the number of cells of the header string
AtHeaderCells == CHOOSE k \in 1..MaxCells : atArgs.header.val = HeaderString(k)

\* leftCol does not have one entry per row and one for the header row
AtLeftColMismatch ==
    ~atArgs.leftCol.none /\ Len(atArgs.leftCol.val) # atArgs.arr.shape[1] + 1

\* the header does not have one cell per column of the array
AtHeaderMismatch ==
    ~atArgs.header.none /\ AtHeaderCells # atArgs.arr.shape[2]

\* nothing but the sizes is wrong with the call: the file can be opened and
\* the format fits the columns
AtSoundButSizes ==
    /\ atArgs.writable
    /\ FmtCount(atArgs.formatstring) \in {1, atArgs.arr.shape[2]}

\* C14: arrayToLaTex does not fail on a size mismatch: with a leftCol
\* shorter or longer than the rows of the array plus one, or a header whose
\* cell count is not the column count, the call returns, and the file it
\* wrote starts with the tabular preamble and ends with the end-of-tabular
\* line.
C14_MismatchWritesTableAndReturns ==
    (AtExited /\ AtSoundButSizes /\ (AtLeftColMismatch \/ AtHeaderMismatch))
    => /\ atRet.kind = "return"
       /\ atFile.writes # <<>>
       /\ atFile.writes[1] = Preamble(NumCols(atArgs.arr, atArgs.leftCol))
       /\ atFile.writes[Len(atFile.writes)] = EndTabular


=============================================================================
